---- MODULE Spec2Model ----
(***************************************************************************)
(* A model of Ani-Gui.py: the JSON store (DataManager), the metadata       *)
(* client's episode ordering (AniAPI.get_episodes), the enrichment cache   *)
(* with its rate-limit gate (_fetch_details_for_item), the library update  *)
(* scan (_check_for_updates_thread) and the selection / playback launcher  *)
(* of the primary thread (AniCliGUI).                                      *)
(*                                                                         *)
(* Each subsystem has its own specification over the shared variables; a   *)
(* specification holds the variables of the other subsystems at rest.      *)
(* The threads of the window are followed in four more specifications:     *)
(* one search with its detail threads (SpecBatch), the launcher with a     *)
(* browse listing of another title (SpecLaunch), racing episode threads    *)
(* (SpecSelect) and racing search and browse fetches (SpecFetch).          *)
(***************************************************************************)
EXTENDS Integers, Sequences, FiniteSets, TLC

VARIABLES
    \* ---- DataManager -------------------------------------------------
    data,            \* DataManager.data: [history, library]
    storeFile,       \* the document at APP_DATA_FILE
    loadOutcome,     \* how the last DataManager.load() call ended
    \* ---- AniAPI.get_episodes -----------------------------------------
    ep_detail,       \* availableEpisodesDetail of the response
    ep_mode,         \* the mode argument
    ep_result,       \* what get_episodes returned ("pending" before the call)
    \* ---- enrichment (_fetch_details_for_item) -------------------------
    now,             \* time.time(), in ticks of 0.25 s
    last_jikan_time, \* last_jikan_time[0]
    jikan_lock,      \* the worker holding jikan_lock, 0 when free
    workers,         \* per enrichment thread: position and locals
    cache_files,     \* Ani-Cache: per title, the .json and the .jpg file
    thumbnail_cache, \* AniCliGUI.thumbnail_cache: record id -> image
    jikan_requests,  \* the requests sent to api.jikan.moe, with send times
    \* ---- update scan (_check_for_updates_thread) ----------------------
    scan,            \* the scan thread: position and locals
    check_updates_button,
    library_edits,   \* add_to_library / remove_from_library calls so far
    \* ---- the window ----------------------------------------------------
    status,          \* the text of the status bar
    after_queue,     \* callbacks scheduled with self.after(0, ...)
    \* ---- selection and playback (AniCliGUI) ---------------------------
    last_query,
    selected_anime_id,
    selected_anime_index,
    selected_anime_title,
    selected_episode,
    play_button,
    download_button,
    result_frames,   \* the records shown in anime_results_frame / browse_results_frame
    episode_list_frame,  \* the labels of its episode buttons
    threads,         \* the search, browse and episode threads
    anime_list,      \* self.anime_list, assigned by the search and browse threads
    launch,          \* the last launch request and the process it spawned
    \* ---- observation ---------------------------------------------------
    enrich_log       \* what each enrichment that returned attached

storeVars  == <<data, storeFile, loadOutcome>>
epVars     == <<ep_detail, ep_mode, ep_result>>
enrichVars == <<now, last_jikan_time, jikan_lock, workers, cache_files,
                thumbnail_cache, jikan_requests>>
scanVars   == <<scan, check_updates_button, library_edits>>
guiVars    == <<status, after_queue>>
uiVars     == <<last_query, selected_anime_id, selected_anime_index,
                selected_anime_title, selected_episode,
                play_button, download_button, result_frames,
                episode_list_frame, threads, anime_list, launch>>
obsVars    == <<enrich_log>>
vars       == <<storeVars, epVars, enrichVars, scanVars, guiVars, uiVars, obsVars>>

None == "None"

\* ---------------------------------------------------------------- values
Modes == {"sub", "dub"}

\* Episode labels are strings of characters; a label is a sequence of
\* one-character strings so that float() can be computed from its digits.
L1   == <<"1">>
L2   == <<"2">>
L10  == <<"1", "0">>
L5_5 == <<"5", ".", "5">>

\* ------------------------------------------------------------ DataManager
\* HistoryEntry values a store document may hold.
H1 == [title |-> "T1", episode |-> L1, timestamp |-> 1, query |-> "q1", index |-> 1]
H2 == [title |-> "T2", episode |-> L2, timestamp |-> 2, query |-> "q2", index |-> 2]
Histories == {<<>>, <<H1>>, <<H1, H2>>}

\* LibraryEntry values a store document may hold (the mapping in insertion order).
E_A == [id |-> "A", title |-> "T1", episodes |-> 1, index |-> 1]
Libraries == {<<>>, <<E_A>>}

\* DataManager._load_defaults
LoadDefaults == [history |-> <<>>, library |-> <<>>]

\* What the file at APP_DATA_FILE may hold.  "absent": no such file;
\* "unreadable": open/read raises IOError; "malformed": json.load raises
\* JSONDecodeError; "notobject": valid JSON that is no object (5, null, [1]);
\* "badutf8": bytes that are not UTF-8 (read raises UnicodeDecodeError);
\* "object": a JSON object holding some of the two top-level keys.
ObjectDocs ==
    { [kind |-> "object", hasHistory |-> hh, history |-> h,
       hasLibrary |-> hl, library |-> l] :
         hh \in BOOLEAN, h \in Histories, hl \in BOOLEAN, l \in Libraries }

PlainDoc(k) ==
    [kind |-> k, hasHistory |-> FALSE, history |-> <<>>,
     hasLibrary |-> FALSE, library |-> <<>>]

Docs ==
    { PlainDoc(k) : k \in {"absent", "unreadable", "malformed", "notobject", "badutf8"} }
    \cup { d \in ObjectDocs : (~d.hasHistory => d.history = <<>>)
                             /\ (~d.hasLibrary => d.library = <<>>) }

\* The exceptions load() catches: `except (json.JSONDecodeError, IOError)`.
CaughtByLoad(kind) == kind \in {"unreadable", "malformed"}

\* The exception, if any, the body of load()'s try block raises on a document.
LoadRaises(doc) == doc.kind \in {"unreadable", "malformed", "notobject", "badutf8"}

\* defaults.update(loaded_data)
UpdatedDefaults(doc) ==
    [history |-> IF doc.hasHistory THEN doc.history ELSE LoadDefaults.history,
     library |-> IF doc.hasLibrary THEN doc.library ELSE LoadDefaults.library]

\* DataManager.load: the data afterwards and whether the call raised.
LoadResult(doc, old) ==
    IF doc.kind = "absent" THEN [data |-> old, outcome |-> "returned"]
    ELSE IF LoadRaises(doc)
         THEN IF CaughtByLoad(doc.kind)
              THEN [data |-> LoadDefaults, outcome |-> "returned"]
              ELSE [data |-> old, outcome |-> "raised"]
         ELSE [data |-> UpdatedDefaults(doc), outcome |-> "returned"]

Load ==
    /\ data' = LoadResult(storeFile, data).data
    /\ loadOutcome' = LoadResult(storeFile, data).outcome
    /\ UNCHANGED storeFile

\* DataManager.save, the write succeeding.
SavedDoc(d) ==
    [kind |-> "object", hasHistory |-> TRUE, history |-> d.history,
     hasLibrary |-> TRUE, library |-> d.library]

Save ==
    /\ storeFile.kind # "unreadable"
    /\ storeFile' = SavedDoc(data)
    /\ UNCHANGED <<data, loadOutcome>>

\* DataManager.save, open() or the write raising IOError: the error is
\* printed; the file is as it was (open failed) or cut short (write failed).
SaveFails ==
    /\ \/ UNCHANGED storeFile
       \/ storeFile.kind # "unreadable" /\ storeFile' = PlainDoc("malformed")
    /\ UNCHANGED <<data, loadOutcome>>

\* The file changes between two runs of the program (another program, the user).
FileChanges ==
    /\ storeFile' \in Docs
    /\ UNCHANGED <<data, loadOutcome>>

StoreIdle ==
    /\ data = LoadDefaults
    /\ storeFile = PlainDoc("absent")
    /\ loadOutcome = "none"

StoreInit ==
    /\ data = LoadDefaults
    /\ storeFile \in Docs
    /\ loadOutcome = "none"

\* ------------------------------------------------------ AniAPI.get_episodes
MaxEps == 3

Labels == {L1, L2, L10, L5_5}

DigitVal(c) ==
    CASE c = "0" -> 0 [] c = "1" -> 1 [] c = "2" -> 2 [] c = "5" -> 5

RECURSIVE IntOf(_)
IntOf(s) == IF s = <<>> THEN 0
            ELSE 10 * IntOf(SubSeq(s, 1, Len(s) - 1)) + DigitVal(s[Len(s)])

DotPos(s) == IF \E i \in 1..Len(s) : s[i] = "."
             THEN CHOOSE i \in 1..Len(s) : s[i] = "."
             ELSE 0

\* float(label), in tenths: labels carry at most one fractional digit.
Float(s) ==
    IF DotPos(s) = 0 THEN 10 * IntOf(s)
    ELSE 10 * IntOf(SubSeq(s, 1, DotPos(s) - 1))
         + IntOf(SubSeq(s, DotPos(s) + 1, Len(s)))

\* Character order of str comparison ('.' sorts before the digits).
CharOrd(c) == IF c = "." THEN 0 ELSE 1 + DigitVal(c)

RECURSIVE StrLess(_, _)
StrLess(a, b) ==
    IF b = <<>> THEN FALSE
    ELSE IF a = <<>> THEN TRUE
    ELSE IF CharOrd(a[1]) # CharOrd(b[1]) THEN CharOrd(a[1]) < CharOrd(b[1])
    ELSE StrLess(Tail(a), Tail(b))

\* One insertion of a stable sort: x goes after every element not greater.
RECURSIVE InsertBy(_, _, _)
InsertBy(Less(_, _), x, s) ==
    IF s = <<>> THEN <<x>>
    ELSE IF Less(x, s[1]) THEN <<x>> \o s
    ELSE <<s[1]>> \o InsertBy(Less, x, Tail(s))

RECURSIVE SortedBy(_, _)
SortedBy(Less(_, _), s) ==
    IF s = <<>> THEN <<>>
    ELSE InsertBy(Less, s[Len(s)], SortedBy(Less, SubSeq(s, 1, Len(s) - 1)))

FloatLess(a, b) == Float(a) < Float(b)

\* sorted(episodes_data, key=float), and the same without the key.
SortedPlain(s) == SortedBy(StrLess, s)
SortedByFloat(s) == SortedBy(FloatLess, s)

\* data['show']['availableEpisodesDetail'].get(mode, [])
DetailGet(detail, mode) == IF detail[mode].present THEN detail[mode].list ELSE <<>>

\* AniAPI.get_episodes on a response whose detail map is `detail`.
GetEpisodes(detail, mode) == SortedByFloat(DetailGet(detail, mode))

LabelLists == UNION { [1..n -> Labels] : n \in 0..MaxEps }

DetailEntries ==
    { [present |-> FALSE, list |-> <<>>] }
    \cup { [present |-> TRUE, list |-> l] : l \in LabelLists }

\* The request succeeds and get_episodes returns.
GetEpisodesReturns ==
    /\ ep_result = <<"pending">>
    /\ ep_result' = <<"returned", GetEpisodes(ep_detail, ep_mode)>>
    /\ UNCHANGED <<ep_detail, ep_mode>>

\* _make_request raises (network failure, non-2xx): get_episodes raises.
GetEpisodesRaises ==
    /\ ep_result = <<"pending">>
    /\ ep_result' = <<"raised", <<>>>>
    /\ UNCHANGED <<ep_detail, ep_mode>>

EpIdle ==
    /\ ep_detail = [m \in Modes |-> [present |-> FALSE, list |-> <<>>]]
    /\ ep_mode = "sub"
    /\ ep_result = <<"pending">>

\* One mode's list ranges over every list of labels; the other mode's list is
\* absent or a fixed one.
EpInit ==
    /\ ep_mode \in Modes
    /\ \E m \in Modes :
         ep_detail \in { d \in [Modes -> DetailEntries] :
                           \A o \in Modes \ {m} :
                              d[o].list \in {<<>>, <<L2, L1>>} }
    /\ ep_result = <<"pending">>

\* ------------------------------------------- enrichment and its rate gate
NWorkers    == 2    \* enrichment threads alive at once
MaxRequests == 3    \* requests to the secondary API in one behaviour
MaxEnrich   == 3    \* enrichments of one record observed in a row
MaxTime     == 5    \* the clock stops here

\* `if elapsed < 0.5: time.sleep(0.5 - elapsed)`: 0.5 s is two ticks.
JikanWindow == 2

WorkerIds == 1..NWorkers

\* Result records handed to enrichment.
Items == { [id |-> "A", title |-> "T1"], [id |-> "B", title |-> "T2"] }
Titles == { i.title : i \in Items }
RecordIds == { i.id : i \in Items }

DefaultSynopsis  == "No description available."
PlaceholderImage == "placeholder_image"

\* What the first candidate of a Jikan response may say.
JikanSynopses == {"Syn1", None}      \* None: no 'synopsis' key
\* What the image URL may serve: a picture, or bytes Image.open rejects.
ImageContents == {"Img1", "notimage"}

NoFile == [state |-> "absent", content |-> None]
OkFile(c) == [state |-> "ok", content |-> c]
CorruptFile == [state |-> "corrupt", content |-> None]

IdleWorker ==
    [pc |-> "idle", id |-> None, title |-> None, synopsis |-> None,
     wake |-> 0, content |-> None, failure |-> None]

\* os.path.exists(img_path) and os.path.exists(meta_path)
CacheEntryExists(files, title) ==
    files[title].img.state # "absent" /\ files[title].meta.state # "absent"

\* Where an exception raised inside the try block continues: the handler
\* `except Exception` prints and falls through to the fallback lines.
ExceptTargetMut == "raised"
ExceptTarget == "fallback"

Failing(w, kind) == [workers EXCEPT ![w].pc = ExceptTarget, ![w].failure = kind]

\* A thread is started on a record (_process_fetched_results,
\* _populate_updates_frame).
StartWorker(w, item) ==
    /\ workers[w].pc = "idle"
    /\ Len(jikan_requests) + Cardinality({v \in WorkerIds : workers[v].pc # "idle"})
          < MaxRequests
    /\ workers' = [workers EXCEPT ![w] =
                      [IdleWorker EXCEPT !.pc = "check", !.id = item.id,
                                         !.title = item.title]]
    /\ UNCHANGED <<now, last_jikan_time, jikan_lock, cache_files,
                   thumbnail_cache, jikan_requests>>

\* if os.path.exists(img_path) and os.path.exists(meta_path):
CachePathMut(files, title) == "acquire"
CachePath(files, title) ==
    IF CacheEntryExists(files, title) THEN "read_meta" ELSE "acquire"

CheckCache(w) ==
    /\ workers[w].pc = "check"
    /\ workers' = [workers EXCEPT ![w].pc = CachePath(cache_files, workers[w].title)]
    /\ UNCHANGED <<now, last_jikan_time, jikan_lock, cache_files,
                   thumbnail_cache, jikan_requests>>

\* meta.get("synopsis", "No description.") of the file this enrichment wrote
\* (the key is always there: json.dump({"synopsis": synopsis}, f)).
MetaSynopsis(file) == file.content

\* with open(meta_path) as f: meta = json.load(f); anime_item['synopsis'] = ...
ReadMeta(w) ==
    /\ workers[w].pc = "read_meta"
    /\ \/ /\ cache_files[workers[w].title].meta.state = "ok"
          /\ workers' = [workers EXCEPT ![w].pc = "read_img",
                            ![w].synopsis = MetaSynopsis(cache_files[workers[w].title].meta)]
       \/ \* the file does not parse, or reading it fails
          workers' = Failing(w, "cache_read")
    /\ UNCHANGED <<now, last_jikan_time, jikan_lock, cache_files,
                   thumbnail_cache, jikan_requests>>

\* pil_image = Image.open(img_path); self.thumbnail_cache[id] = CTkImage(...); return
ReadImg(w) ==
    /\ workers[w].pc = "read_img"
    /\ \/ /\ cache_files[workers[w].title].img.state = "ok"
          /\ workers' = [workers EXCEPT ![w].pc = "done"]
          /\ thumbnail_cache' = [thumbnail_cache EXCEPT ![workers[w].id] =
                                    cache_files[workers[w].title].img.content]
       \/ /\ workers' = Failing(w, IF cache_files[workers[w].title].img.state = "ok"
                                    THEN "cache_read" ELSE "image_decode")
          /\ UNCHANGED thumbnail_cache
    /\ UNCHANGED <<now, last_jikan_time, jikan_lock, cache_files, jikan_requests>>

\* with jikan_lock:
Acquire(w) ==
    /\ workers[w].pc = "acquire"
    /\ jikan_lock = 0
    /\ jikan_lock' = w
    /\ workers' = [workers EXCEPT ![w].pc = "gate"]
    /\ UNCHANGED <<now, last_jikan_time, cache_files, thumbnail_cache,
                   jikan_requests>>

\* elapsed = time.time() - last_jikan_time[0]; the time still to sleep.
SleepTimeMut(t, last) == 0
SleepTime(t, last) == IF t - last < JikanWindow THEN JikanWindow - (t - last) ELSE 0

Gate(w) ==
    /\ workers[w].pc = "gate"
    /\ workers' = [workers EXCEPT ![w].pc = "sleep",
                                  ![w].wake = now + SleepTime(now, last_jikan_time)]
    /\ UNCHANGED <<now, last_jikan_time, jikan_lock, cache_files,
                   thumbnail_cache, jikan_requests>>

\* time.sleep returns no earlier than asked; then
\* last_jikan_time[0] = time.time(); response = requests.get(jikan...)
\* The request is issued by the statement after the one that stamps the time:
\* its send time is the time stamped.
SendRequest(w) ==
    /\ workers[w].pc = "sleep"
    /\ now >= workers[w].wake
    /\ last_jikan_time' = now
    /\ jikan_requests' = Append(jikan_requests,
                                [t |-> now, title |-> workers[w].title])
    /\ workers' = [workers EXCEPT ![w].pc = "await"]
    /\ UNCHANGED <<now, jikan_lock, cache_files, thumbnail_cache>>

\* The request fails (network, timeout, raise_for_status, bad JSON): the
\* with block is left by the exception, which releases the lock.
ResponseFails(w) ==
    /\ workers[w].pc = "await"
    /\ jikan_lock' = 0
    /\ workers' = Failing(w, "request")
    /\ UNCHANGED <<now, last_jikan_time, cache_files, thumbnail_cache,
                   jikan_requests>>

\* data = response.json().get('data', []); the with block ends.
\* `if data and 'images' in data[0]` fails: fall through to the fallback.
ResponseWithoutCandidate(w) ==
    /\ workers[w].pc = "await"
    /\ jikan_lock' = 0
    /\ workers' = [workers EXCEPT ![w].pc = "fallback", ![w].failure = "no_candidate"]
    /\ UNCHANGED <<now, last_jikan_time, cache_files, thumbnail_cache,
                   jikan_requests>>

\* synopsis = data[0].get('synopsis', 'No description available.')
CandidateSynopsis(s) == IF s = None THEN DefaultSynopsis ELSE s

\* ... and it holds: anime_item['synopsis'] = synopsis.
ResponseWithCandidate(w) ==
    /\ workers[w].pc = "await"
    /\ jikan_lock' = 0
    /\ \E s \in JikanSynopses :
          workers' = [workers EXCEPT ![w].pc = "write_meta",
                                     ![w].synopsis = CandidateSynopsis(s)]
    /\ UNCHANGED <<now, last_jikan_time, cache_files, thumbnail_cache,
                   jikan_requests>>

\* with open(meta_path, "w") as f: json.dump({"synopsis": synopsis}, f)
WriteMeta(w) ==
    /\ workers[w].pc = "write_meta"
    /\ \/ /\ cache_files' = [cache_files EXCEPT ![workers[w].title].meta =
                                OkFile(workers[w].synopsis)]
          /\ workers' = [workers EXCEPT ![w].pc = "download"]
       \/ \* open() fails, or the write is cut short
          /\ \/ UNCHANGED cache_files
             \/ cache_files' = [cache_files EXCEPT ![workers[w].title].meta = CorruptFile]
          /\ workers' = Failing(w, "cache_write")
    /\ UNCHANGED <<now, last_jikan_time, jikan_lock, thumbnail_cache,
                   jikan_requests>>

\* image_response = requests.get(image_url); image_response.raise_for_status()
DownloadImage(w) ==
    /\ workers[w].pc = "download"
    /\ \/ \E c \in ImageContents :
             workers' = [workers EXCEPT ![w].pc = "write_img", ![w].content = c]
       \/ workers' = Failing(w, "image_download")
    /\ UNCHANGED <<now, last_jikan_time, jikan_lock, cache_files,
                   thumbnail_cache, jikan_requests>>

\* The .jpg file holding bytes `c`: Image.open reads it only when a picture.
ImageFile(c) == IF c = "notimage" THEN CorruptFile ELSE OkFile(c)

\* with open(img_path, "wb") as f: f.write(content);
\* pil_image = Image.open(io.BytesIO(content)); thumbnail_cache[id] = ...; return
WriteImg(w) ==
    /\ workers[w].pc = "write_img"
    /\ \/ /\ cache_files' = [cache_files EXCEPT ![workers[w].title].img =
                                ImageFile(workers[w].content)]
          /\ IF workers[w].content = "notimage"
             THEN /\ workers' = Failing(w, "image_decode")
                  /\ UNCHANGED thumbnail_cache
             ELSE /\ workers' = [workers EXCEPT ![w].pc = "done"]
                  /\ thumbnail_cache' =
                        [thumbnail_cache EXCEPT ![workers[w].id] = workers[w].content]
       \/ /\ \/ UNCHANGED cache_files
             \/ cache_files' = [cache_files EXCEPT ![workers[w].title].img = CorruptFile]
          /\ workers' = Failing(w, "cache_write")
          /\ UNCHANGED thumbnail_cache
    /\ UNCHANGED <<now, last_jikan_time, jikan_lock, jikan_requests>>

\* anime_item['synopsis'] = 'No description available.'
FallbackSynopsis(old) == DefaultSynopsis

\* The two lines after the try statement; the function returns.
Fallback(w) ==
    /\ workers[w].pc = "fallback"
    /\ workers' = [workers EXCEPT ![w].pc = "done",
                                  ![w].synopsis = FallbackSynopsis(workers[w].synopsis)]
    /\ thumbnail_cache' = [thumbnail_cache EXCEPT ![workers[w].id] = PlaceholderImage]
    /\ UNCHANGED <<now, last_jikan_time, jikan_lock, cache_files, jikan_requests>>

\* t.join() returns for a thread that has ended.
Join(w) ==
    /\ workers[w].pc \in {"done", "raised"}
    /\ workers' = [workers EXCEPT ![w] = IdleWorker]
    /\ UNCHANGED <<now, last_jikan_time, jikan_lock, cache_files,
                   thumbnail_cache, jikan_requests>>

\* Time passes.
Tick ==
    /\ now < MaxTime
    /\ now' = now + 1
    /\ UNCHANGED <<last_jikan_time, jikan_lock, workers, cache_files,
                   thumbnail_cache, jikan_requests>>

EnrichIdle ==
    /\ now = JikanWindow
    /\ last_jikan_time = 0
    /\ jikan_lock = 0
    /\ workers = [w \in WorkerIds |-> IdleWorker]
    /\ cache_files = [t \in Titles |-> [meta |-> NoFile, img |-> NoFile]]
    /\ thumbnail_cache = [i \in RecordIds |-> None]
    /\ jikan_requests = <<>>

ObsIdle == enrich_log = <<>>

\* Worker w's call of _fetch_details_for_item returns in this step.
Returned(w) == workers[w].pc # "done" /\ workers'[w].pc = "done"

\* The observer of one thread's enrichments: what each call attached to the
\* record, how many requests the secondary API had received when it returned,
\* and whether both cache files of the title existed then.
ObservedWorker == 1
ObservedItem == [id |-> "A", title |-> "T1"]

Observe ==
    IF Returned(ObservedWorker)
    THEN enrich_log' = Append(enrich_log,
            [synopsis |-> workers'[ObservedWorker].synopsis,
             image    |-> thumbnail_cache'[workers'[ObservedWorker].id],
             failure  |-> workers'[ObservedWorker].failure,
             requests |-> Len(jikan_requests'),
             cached   |-> CacheEntryExists(cache_files', workers'[ObservedWorker].title)])
    ELSE UNCHANGED enrich_log

\* The cache directory of an earlier run: nothing for T1; for T2 nothing, a
\* whole entry, or an entry whose .json does not parse.
InitialT2Cache ==
    { [meta |-> NoFile, img |-> NoFile],
      [meta |-> OkFile("Syn1"), img |-> OkFile("Img1")],
      [meta |-> CorruptFile, img |-> OkFile("Img1")] }

\* last_jikan_time starts at [0] and time.time() is far past it.
EnrichInit ==
    /\ now = JikanWindow
    /\ last_jikan_time = 0
    /\ jikan_lock = 0
    /\ workers = [w \in WorkerIds |-> IdleWorker]
    /\ \E c \in InitialT2Cache :
          cache_files = [t \in Titles |->
                            IF t = "T2" THEN c ELSE [meta |-> NoFile, img |-> NoFile]]
    /\ thumbnail_cache = [i \in RecordIds |-> None]
    /\ jikan_requests = <<>>

\* ------------------------------------------------- library and update scan
MaxLib   == 2      \* entries the library holds at once
MaxEdits == 2      \* library adds and removes in one behaviour
MaxCount == 2      \* the largest episode count a search reports

\* time.sleep(0.5) of the scan loop: two ticks of 0.25 s.
ScanPause == 2

LibraryIds == {"A", "B"}
TitleOf(id) == IF id = "A" THEN "T1" ELSE "T2"

\* The ResultRecord _format_results builds for edge number `index` of a page.
\* It has no 'synopsis' key until an enrichment attaches one: None here.
ResultRecord(index, id, episodes) ==
    [id |-> id, title |-> TitleOf(id), episodes |-> episodes, index |-> index,
     synopsis |-> None]

\* The pages api.search may return: up to two records, no id twice (the
\* remote system's _id is unique within a page).
SearchPages ==
    { <<>> }
    \cup { <<ResultRecord(1, i, n)>> : i \in LibraryIds, n \in 0..MaxCount }
    \cup UNION { { <<ResultRecord(1, i, n), ResultRecord(2, j, 1)>> :
                       j \in LibraryIds \ {i}, n \in 0..MaxCount } : i \in LibraryIds }

LibraryHas(lib, id) == \E k \in 1..Len(lib) : lib[k].id = id
LibraryPos(lib, id) == CHOOSE k \in 1..Len(lib) : lib[k].id = id
RemoveAt(s, k) == SubSeq(s, 1, k - 1) \o SubSeq(s, k + 1, Len(s))

\* The scan thread's position and locals, and two records of its run: `log`,
\* the searches of this scan that have ended, each with how it ended, and
\* `paused`, the time the thread has slept since its last search request.
IdleScan ==
    [pc |-> "idle", size |-> 0, pos |-> 0, cur |-> ResultRecord(0, "A", 0),
     curLive |-> FALSE, response |-> <<>>, updated_items |-> <<>>,
     log |-> <<>>, paused |-> 0]

\* One search of the scan: the entry searched for and how the call ended.
Searched(id, outcome) == [id |-> id, outcome |-> outcome]

\* add_to_library: library[item['id']] = item (the context menu offers it for
\* a record whose id is not in the library).
AddToLibrary(item) ==
    /\ ~LibraryHas(data.library, item.id)
    /\ Len(data.library) < MaxLib
    /\ library_edits < MaxEdits
    /\ library_edits' = library_edits + 1
    /\ data' = [data EXCEPT !.library = Append(@, item)]
    /\ status' = "Added to library."
    /\ UNCHANGED <<storeFile, loadOutcome, scan, check_updates_button,
                   after_queue>>

\* remove_from_library: library.pop(item_id).  A running scan's iterator
\* keeps its place in the dict's entries: an entry removed behind it moves the
\* entries that follow one place up; the entry the scan holds becomes detached.
RemoveFromLibrary(id) ==
    /\ LibraryHas(data.library, id)
    /\ library_edits < MaxEdits
    /\ library_edits' = library_edits + 1
    /\ data' = [data EXCEPT !.library = RemoveAt(@, LibraryPos(@, id))]
    /\ status' = "Removed from library."
    /\ scan' = IF scan.pc \in {"idle", "start", "crashed"} THEN scan
               ELSE [scan EXCEPT
                       !.pos = IF LibraryPos(data.library, id) <= @ THEN @ - 1 ELSE @,
                       !.curLive = @ /\ scan.cur.id # id]
    /\ UNCHANGED <<storeFile, loadOutcome, check_updates_button,
                   after_queue>>

\* check_for_updates: the button is disabled and the scan thread started.
CheckForUpdates ==
    /\ check_updates_button = "normal"
    /\ scan.pc = "idle"
    /\ check_updates_button' = "disabled"
    /\ status' = "Checking for new episodes in your library..."
    /\ scan' = [IdleScan EXCEPT !.pc = "start"]
    /\ UNCHANGED <<data, storeFile, loadOutcome, after_queue, library_edits>>

\* library = self.data_manager.get("library"); updated_items = [];
\* the for statement creates the iterator of library.items().
ScanBegin ==
    /\ scan.pc = "start"
    /\ scan' = [scan EXCEPT !.pc = "next", !.size = Len(data.library)]
    /\ UNCHANGED <<data, storeFile, loadOutcome, check_updates_button,
                   status, after_queue, library_edits>>

\* The for statement asks the iterator for the next entry: RuntimeError
\* (dictionary changed size during iteration) ends the thread; the next entry
\* starts a round; no entry left ends the loop.
ScanNext ==
    /\ scan.pc = "next"
    /\ scan' = IF Len(data.library) # scan.size
               THEN [scan EXCEPT !.pc = "crashed"]
               ELSE IF scan.pos < Len(data.library)
               THEN [scan EXCEPT !.pc = "search", !.pos = @ + 1,
                                 !.cur = data.library[scan.pos + 1],
                                 !.curLive = TRUE, !.paused = 0]
               ELSE [scan EXCEPT !.pc = "set"]
    /\ UNCHANGED <<data, storeFile, loadOutcome, check_updates_button,
                   status, after_queue, library_edits>>

\* search_results = self.api.search(item_data['title'], mode) returns a page.
ScanSearchReturns ==
    /\ scan.pc = "search"
    /\ \E page \in SearchPages :
          scan' = [scan EXCEPT !.pc = "compare", !.response = page,
                               !.log = Append(@, Searched(scan.cur.id, "returned"))]
    /\ UNCHANGED <<data, storeFile, loadOutcome, check_updates_button,
                   status, after_queue, library_edits>>

\* ... or raises: the handler prints, and the loop goes on to the next entry
\* (time.sleep(0.5) is a statement of the try block and is skipped).
ScanSearchRaises ==
    /\ scan.pc = "search"
    /\ scan' = [scan EXCEPT !.pc = "next",
                            !.log = Append(@, Searched(scan.cur.id, "raised"))]
    /\ UNCHANGED <<data, storeFile, loadOutcome, check_updates_button,
                   status, after_queue, library_edits>>

\* next((res for res in search_results if res['id'] == item_id), None)
RECURSIVE FirstMatch(_, _)
FirstMatch(page, id) ==
    IF page = <<>> THEN <<>>
    ELSE IF page[1].id = id THEN <<page[1]>>
    ELSE FirstMatch(Tail(page), id)

\* if latest_data['episodes'] > item_data['episodes']
NewerMut(latest, stored) == latest >= stored
Newer(latest, stored) == latest > stored

UpdateFound(page, item) ==
    /\ FirstMatch(page, item.id) # <<>>
    /\ Newer(FirstMatch(page, item.id)[1].episodes, item.episodes)

\* item_data['episodes'] = latest_data['episodes']; updated_items.append(item_data)
\* item_data is the object the library holds, unless it was removed meanwhile.
ScanCompare ==
    /\ scan.pc = "compare"
    /\ IF UpdateFound(scan.response, scan.cur)
       THEN LET n == FirstMatch(scan.response, scan.cur.id)[1].episodes
                item == [scan.cur EXCEPT !.episodes = n]
            IN  /\ scan' = [scan EXCEPT !.pc = "sleep", !.cur = item,
                                        !.updated_items = Append(@, item)]
                /\ data' = IF scan.curLive
                           THEN [data EXCEPT
                                   !.library[LibraryPos(data.library, scan.cur.id)] = item]
                           ELSE data
       ELSE /\ scan' = [scan EXCEPT !.pc = "sleep"]
            /\ UNCHANGED data
    /\ UNCHANGED <<storeFile, loadOutcome, check_updates_button,
                   status, after_queue, library_edits>>

\* time.sleep(0.5)
ScanSleep ==
    /\ scan.pc = "sleep"
    /\ scan' = [scan EXCEPT !.pc = "next", !.paused = @ + ScanPause]
    /\ UNCHANGED <<data, storeFile, loadOutcome, check_updates_button,
                   status, after_queue, library_edits>>

\* self.data_manager.set("library", library);
\* self.after(0, self._finalize_updates, updated_items): the thread ends.
ScanFinish ==
    /\ scan.pc = "set"
    /\ after_queue' = Append(after_queue,
                             [fn |-> "_finalize_updates", arg |-> scan.updated_items])
    /\ scan' = [scan EXCEPT !.pc = "idle"]
    /\ UNCHANGED <<data, storeFile, loadOutcome, check_updates_button,
                   status, library_edits>>

\* _finalize_updates(updated_items), run by the primary thread.
FinalizeUpdates ==
    /\ after_queue # <<>>
    /\ Head(after_queue).fn = "_finalize_updates"
    /\ status' = IF Head(after_queue).arg # <<>> THEN "Found updates!"
                 ELSE "No new episodes found."
    /\ check_updates_button' = "normal"
    /\ after_queue' = Tail(after_queue)
    /\ UNCHANGED <<data, storeFile, loadOutcome, scan, library_edits>>

\* A step of the thread running _check_for_updates_thread: its position moves.
ScanThreadStep == scan.pc \notin {"idle", "crashed"} /\ scan'.pc # scan.pc

\* A search of this scan has raised.
SearchFailed(log) == \E k \in 1..Len(log) : log[k].outcome = "raised"

ScanIdle ==
    /\ scan = IdleScan
    /\ check_updates_button = "normal"
    /\ library_edits = 0

GuiIdle ==
    /\ status = "Ready. Enter an anime to search."
    /\ after_queue = <<>>

\* The library a store file of an earlier run may have held.
ScanInit ==
    /\ data \in { [history |-> <<>>, library |-> l] :
                    l \in { <<>>, <<ResultRecord(1, "A", 1)>>,
                            <<ResultRecord(1, "A", 1), ResultRecord(2, "B", 1)>> } }
    /\ storeFile = PlainDoc("absent")
    /\ loadOutcome = "none"
    /\ ScanIdle
    /\ GuiIdle

\* ------------------------------------------ selection and playback launcher
MaxThreads  == 1   \* search, browse and episode threads alive at once
MaxLaunches == 2   \* play / download / play-from-history requests in one behaviour
MaxStamp    == 1   \* readings of datetime.now()
MaxQueue    == 2   \* callbacks waiting in the queue of self.after
MaxFetches  == 2   \* search and browse threads alive at once, where they race
MaxEpisodeThreads == 2   \* episode threads alive at once, where they race

ANI_CLI_PATH == "ani-cli"

\* Two of the values of quality_menu.
Qualities == {"best", "720p"}

\* What search_entry may hold besides the empty string.
Queries == {"q1"}

Timestamps == 1..MaxStamp
ThreadIds == DOMAIN threads
Frames == {"anime_results_frame", "browse_results_frame"}

\* selected_anime_index and selected_episode start as None.  Python's all()
\* takes None, 0 and "" alike for false: the absent index is written 0 and
\* the absent episode label is the empty label.
NoIndex == 0
NoEpisode == <<>>

\* The pages api.search returns for a query, as _format_results numbers
\* them: the remote system finds title A for "q1", titles B and A for "q2".
QueryPages(query) ==
    IF query = "q1" THEN { <<>>, <<ResultRecord(1, "A", 1)>> }
    ELSE { <<>>, <<ResultRecord(1, "B", 1), ResultRecord(2, "A", 1)>> }

\* The pages api.browse returns: title B leads the listing, or title A does.
BrowsePages == { <<>>, <<ResultRecord(1, "B", 1)>>, <<ResultRecord(1, "A", 1)>> }

\* The lists api.get_episodes returns for a show (see GetEpisodes): show A
\* has episodes 1 and 2, show B has episode 10.
EpisodeListsOf(id) ==
    IF id = "A" THEN { <<>>, SortedByFloat(<<L2, L1>>) } ELSE { <<>>, <<L10>> }

\* str(self.selected_episode): the label's characters, joined.
RECURSIVE Str(_)
Str(l) == IF l = <<>> THEN "" ELSE l[1] \o Str(Tail(l))

\* `if not all([self.last_query, self.selected_anime_index, self.selected_episode])`
SelectionCompleteMut(query, index, episode) ==
    index # NoIndex /\ episode # NoEpisode
SelectionComplete(query, index, episode) ==
    query # "" /\ index # NoIndex /\ episode # NoEpisode

SelectionError == "Error: Search query, anime, and episode must be selected."

\* command = [ANI_CLI_PATH, "-q", quality]; append "--dub" for mode dub;
\* append action_flag if there is one; extend with -S, -e and the query.
CommandMut(quality, mode, action_flag, index, episode, query) ==
    <<ANI_CLI_PATH, "-q", quality>>
    \o (IF action_flag # None THEN <<action_flag>> ELSE <<>>)
    \o (IF mode = "dub" THEN <<"--dub">> ELSE <<>>)
    \o <<"-S", ToString(index), "-e", Str(episode), query>>
Command(quality, mode, action_flag, index, episode, query) ==
    <<ANI_CLI_PATH, "-q", quality>>
    \o (IF mode = "dub" THEN <<"--dub">> ELSE <<>>)
    \o (IF action_flag # None THEN <<action_flag>> ELSE <<>>)
    \o <<"-S", ToString(index), "-e", Str(episode), query>>

\* `if not action_flag: self.add_to_history()`
RecordsHistoryMut(action_flag) == TRUE
RecordsHistory(action_flag) == action_flag = None

\* add_to_history's new_entry
NewEntry(title, episode, timestamp, query, index) ==
    [title |-> title, episode |-> episode, timestamp |-> timestamp,
     query |-> query, index |-> index]

\* add_to_history: `if not history or (history[-1]['title'] != new_entry['title']
\* or history[-1]['episode'] != new_entry['episode']): history.append(new_entry)`
AddToHistoryMut(history, new_entry) ==
    IF \/ history = <<>>
       \/ /\ history[Len(history)].title # new_entry.title
          /\ history[Len(history)].episode # new_entry.episode
    THEN Append(history, new_entry)
    ELSE history
AddToHistory(history, new_entry) ==
    IF \/ history = <<>>
       \/ history[Len(history)].title # new_entry.title
       \/ history[Len(history)].episode # new_entry.episode
    THEN Append(history, new_entry)
    ELSE history

\* What the last launch request came to: its action_flag, the quality and
\* mode read, and the argument list handed to Popen.
NoLaunch ==
    [n |-> 0, action_flag |-> None, quality |-> None, mode |-> None,
     outcome |-> "none", command |-> <<>>]

Launched(action_flag, quality, mode, outcome, command) ==
    [n |-> launch.n + 1, action_flag |-> action_flag, quality |-> quality,
     mode |-> mode, outcome |-> outcome, command |-> command]

\* _run_ani_cli_command, with the selection the instance holds when it runs.
RunAniCliCommand(action_flag, query, index, episode, title) ==
    /\ launch.n < MaxLaunches
    /\ IF ~SelectionComplete(query, index, episode)
       THEN /\ status' = SelectionError
            /\ launch' = Launched(action_flag, None, None, "rejected", <<>>)
            /\ UNCHANGED data
       ELSE \/ \* subprocess.Popen raises: `except Exception` sets the status
               /\ status' = "Failed to execute command"
               /\ launch' = Launched(action_flag, None, None, "failed", <<>>)
               /\ UNCHANGED data
            \/ \* subprocess.Popen returns
               \E quality \in Qualities, mode \in Modes :
                 /\ launch' = Launched(action_flag, quality, mode, "spawned",
                                       Command(quality, mode, action_flag,
                                               index, episode, query))
                 /\ IF RecordsHistory(action_flag)
                    THEN \E timestamp \in Timestamps :
                           LET history == AddToHistory(data.history,
                                              NewEntry(title, episode, timestamp,
                                                       query, index))
                           IN  /\ data' = [data EXCEPT !.history = history]
                               /\ status' = IF history # data.history
                                            THEN "Added to history."
                                            ELSE "Playing..."
                    ELSE /\ status' = "Downloading..."
                         /\ UNCHANGED data

selectionVars == <<last_query, selected_anime_id, selected_anime_index,
                   selected_anime_title, selected_episode>>
widgetVars == <<play_button, download_button, result_frames,
                episode_list_frame>>

\* play_episode, from the Play button.
PlayEpisode ==
    /\ play_button = "normal"
    /\ RunAniCliCommand(None, last_query, selected_anime_index,
                        selected_episode, selected_anime_title)
    /\ UNCHANGED <<selectionVars, widgetVars, threads, anime_list, after_queue,
                   thumbnail_cache, storeFile, loadOutcome>>

\* download_episode, from the Download button.
DownloadEpisode ==
    /\ download_button = "normal"
    /\ RunAniCliCommand("-d", last_query, selected_anime_index,
                        selected_episode, selected_anime_title)
    /\ UNCHANGED <<selectionVars, widgetVars, threads, anime_list, after_queue,
                   thumbnail_cache, storeFile, loadOutcome>>

\* _play_from_history(item), from a row of the history page.
PlayFromHistory(item) ==
    /\ \E k \in 1..Len(data.history) : data.history[k] = item
    /\ last_query' = item.query
    /\ selected_anime_index' = item.index
    /\ selected_episode' = item.episode
    /\ selected_anime_title' = item.title
    /\ RunAniCliCommand(None, item.query, item.index, item.episode,
                        item.title)
    /\ UNCHANGED <<selected_anime_id, widgetVars, threads, anime_list,
                   after_queue, thumbnail_cache, storeFile, loadOutcome>>

\* A thread of the window: its target, its position and its locals.
\* `returned` is what its own api call returned, `results` the list it handed
\* to _process_fetched_results, `started` / `joined` the detail threads it has
\* started and joined, `id` the selected_anime_id an episode thread read.
NoThread ==
    [kind |-> "none", pc |-> "done", query |-> "", id |-> None,
     returned |-> <<>>, results |-> <<>>, started |-> 0, joined |-> 0]

HasFreeThread == \E t \in ThreadIds : threads[t].kind = "none"

\* threading.Thread(target=...).start()
StartThread(kind, query) ==
    LET t == CHOOSE t \in ThreadIds :
                 /\ threads[t].kind = "none"
                 /\ \A u \in ThreadIds : threads[u].kind = "none" => t <= u
    IN  [threads EXCEPT ![t] = [NoThread EXCEPT !.kind = kind, !.pc = "request",
                                                !.query = query]]

\* The texts the worker threads schedule for the status bar ("Found 2
\* results. Fetching details...", "Select an episode for 'T1'.", ...): none
\* of them is told apart from another here.
ProgressMessage == "..."

\* self.after(0, fn, arg)
Callback(fn, arg) == [fn |-> fn, arg |-> arg]

\* The queue has room for k callbacks more.
QueueRoom(k) == Len(after_queue) + k <= MaxQueue

\* search_anime with an empty entry.
SearchAnimeEmpty ==
    /\ status' = "Error: Search query cannot be empty."
    /\ UNCHANGED <<selectionVars, widgetVars, threads, anime_list, after_queue,
                   launch, thumbnail_cache, storeVars>>

\* search_anime (the Search button, or Return in the entry).
SearchAnime(query) ==
    /\ query # ""
    /\ HasFreeThread
    /\ last_query' = query
    /\ status' = "Searching..."
    /\ result_frames' = [f \in Frames |-> <<>>]
    /\ episode_list_frame' = <<>>
    /\ play_button' = "disabled"
    /\ download_button' = "disabled"
    /\ thumbnail_cache' = [i \in RecordIds |-> None]
    /\ threads' = StartThread("search", query)
    /\ UNCHANGED <<selected_anime_id, selected_anime_index, selected_anime_title,
                   selected_episode, anime_list, after_queue, launch, storeVars>>

\* browse_anime
BrowseAnime ==
    /\ HasFreeThread
    /\ status' = "Browsing anime..."
    /\ result_frames' = [f \in Frames |-> <<>>]
    /\ episode_list_frame' = <<>>
    /\ thumbnail_cache' = [i \in RecordIds |-> None]
    /\ threads' = StartThread("browse", "")
    /\ UNCHANGED <<selectionVars, play_button, download_button, anime_list,
                   after_queue, launch, storeVars>>

\* _search_thread: self.anime_list = self.api.search(query, mode), the call
\* returning a page.
SearchThreadReturns(t, page) ==
    /\ threads[t].kind = "search"
    /\ threads[t].pc = "request"
    /\ page \in QueryPages(threads[t].query)
    /\ anime_list' = page
    /\ threads' = [threads EXCEPT ![t].pc = "fetched", ![t].returned = page]
    /\ UNCHANGED <<selectionVars, widgetVars, status, after_queue, launch,
                   thumbnail_cache, storeVars>>

\* _search_thread: api.search raises; the handler schedules the message.
SearchThreadRaises(t) ==
    /\ QueueRoom(1)
    /\ threads[t].kind = "search"
    /\ threads[t].pc = "request"
    /\ after_queue' = Append(after_queue,
                             Callback("_update_status", ProgressMessage))
    /\ threads' = [threads EXCEPT ![t] = NoThread]
    /\ UNCHANGED <<selectionVars, widgetVars, status, anime_list, launch,
                   thumbnail_cache, storeVars>>

\* _browse_thread: self.anime_list = self.api.browse(mode, sort_by, page)
\* (browse returns [] where search would raise).
BrowseThreadReturns(t, page) ==
    /\ threads[t].kind = "browse"
    /\ threads[t].pc = "request"
    /\ anime_list' = page
    /\ threads' = [threads EXCEPT ![t].pc = "fetched", ![t].returned = page]
    /\ UNCHANGED <<selectionVars, widgetVars, status, after_queue, launch,
                   thumbnail_cache, storeVars>>

\* self._process_fetched_results(self.anime_list, frame, msg): the argument is
\* read from self.anime_list; an empty list schedules the not-found message
\* and the thread ends, another one is announced and goes on to its details.
ProcessFetchedResults(t) ==
    /\ QueueRoom(1)
    /\ threads[t].pc = "fetched"
    /\ after_queue' = Append(after_queue,
                             Callback("_update_status", ProgressMessage))
    /\ threads' = IF anime_list = <<>>
                  THEN [threads EXCEPT ![t] = NoThread]
                  ELSE [threads EXCEPT ![t].pc = "details",
                                       ![t].results = anime_list]
    /\ UNCHANGED <<selectionVars, widgetVars, status, anime_list, launch,
                   thumbnail_cache, storeVars>>

\* What one call of _fetch_details_for_item leaves: the synopsis and image of
\* the secondary API (or of the cache), or those of the fallback lines.
EnrichOutcomes ==
    { [synopsis |-> "Syn1", image |-> "Img1"],
      [synopsis |-> DefaultSynopsis, image |-> PlaceholderImage] }

\* anime_item['synopsis'] = ...
WithSynopsis(results, k, synopsis) == [results EXCEPT ![k].synopsis = synopsis]

\* One detail thread of the batch, from its start to its join, taken as one
\* step: it attaches a synopsis to its record and stores the record's image.
DetailThreadRuns(t, o) ==
    /\ threads[t].pc = "details"
    /\ threads[t].joined < Len(threads[t].results)
    /\ LET k == threads[t].joined + 1
       IN  /\ threads' = [threads EXCEPT
                            ![t].results = WithSynopsis(@, k, o.synopsis),
                            ![t].started = k, ![t].joined = k]
           /\ thumbnail_cache' = [thumbnail_cache EXCEPT
                                    ![threads[t].results[k].id] = o.image]
    /\ UNCHANGED <<selectionVars, widgetVars, status, anime_list, after_queue,
                   launch, storeVars>>

\* `for t in threads: t.start()`: the thread of the next record is started.
StartDetailThread(t) ==
    /\ threads[t].pc = "details"
    /\ threads[t].started < Len(threads[t].results)
    /\ LET k == threads[t].started + 1
       IN  /\ StartWorker(k, threads[t].results[k])
           /\ threads' = [threads EXCEPT ![t].started = k]
    /\ UNCHANGED <<selectionVars, widgetVars, status, anime_list, after_queue,
                   launch, storeVars>>

\* `for t in threads: t.join()`: the join of the next thread returns once
\* that thread has ended; its record holds what the thread attached.
JoinDetailThread(t) ==
    /\ threads[t].pc = "details"
    /\ threads[t].started = Len(threads[t].results)
    /\ threads[t].joined < Len(threads[t].results)
    /\ LET k == threads[t].joined + 1
       IN  /\ Join(k)
           /\ threads' = [threads EXCEPT
                            ![t].results = WithSynopsis(@, k, workers[k].synopsis),
                            ![t].joined = k]
    /\ UNCHANGED <<selectionVars, widgetVars, status, anime_list, after_queue,
                   launch, storeVars>>

\* Both loops of _process_fetched_results are through.
AllJoinedMut(thread) == thread.joined >= 1
AllJoined(thread) ==
    thread.started = Len(thread.results) /\ thread.joined = Len(thread.results)

\* _process_fetched_results after the joins: the batch and the closing
\* message are scheduled, and the thread ends.
FetchedDetails(t) ==
    /\ QueueRoom(2)
    /\ threads[t].pc = "details"
    /\ AllJoined(threads[t])
    /\ after_queue' = after_queue \o
          << Callback("_populate_anime_results",
                      [results |-> threads[t].results,
                       target_frame |-> IF threads[t].kind = "search"
                                        THEN "anime_results_frame"
                                        ELSE "browse_results_frame"]),
             Callback("_update_status", ProgressMessage) >>
    /\ threads' = [threads EXCEPT ![t] = NoThread]
    /\ UNCHANGED <<selectionVars, widgetVars, status, anime_list, launch,
                   thumbnail_cache, storeVars>>

\* select_anime(item), from a button of a result frame.
SelectAnime(item) ==
    /\ \E f \in Frames : \E k \in 1..Len(result_frames[f]) : result_frames[f][k] = item
    /\ HasFreeThread
    /\ selected_anime_id' = item.id
    /\ selected_anime_index' = item.index
    /\ selected_anime_title' = item.title
    /\ episode_list_frame' = <<>>
    /\ play_button' = "disabled"
    /\ download_button' = "disabled"
    /\ status' = "Fetching episodes..."
    /\ threads' = StartThread("episodes", "")
    /\ UNCHANGED <<last_query, selected_episode, result_frames, anime_list,
                   after_queue, launch, thumbnail_cache, storeVars>>

\* _get_episodes_thread: self.selected_anime_id is read when the thread gets
\* to the call of api.get_episodes, and the request is sent for it.
GetEpisodesThreadRequests(t) ==
    /\ threads[t].kind = "episodes"
    /\ threads[t].pc = "request"
    /\ threads' = [threads EXCEPT ![t].pc = "await", ![t].id = selected_anime_id]
    /\ UNCHANGED <<selectionVars, widgetVars, status, anime_list, after_queue,
                   launch, thumbnail_cache, storeVars>>

\* _get_episodes_thread: api.get_episodes returns.
GetEpisodesThreadReturns(t, episodes) ==
    /\ QueueRoom(2)
    /\ threads[t].kind = "episodes"
    /\ threads[t].pc = "await"
    /\ episodes \in EpisodeListsOf(threads[t].id)
    /\ after_queue' = after_queue \o
          << Callback("_populate_episodes", episodes),
             Callback("_update_status", ProgressMessage) >>
    /\ threads' = [threads EXCEPT ![t] = NoThread]
    /\ UNCHANGED <<selectionVars, widgetVars, status, anime_list, launch,
                   thumbnail_cache, storeVars>>

\* _get_episodes_thread: api.get_episodes raises.
GetEpisodesThreadRaises(t) ==
    /\ QueueRoom(1)
    /\ threads[t].kind = "episodes"
    /\ threads[t].pc = "await"
    /\ after_queue' = Append(after_queue,
                             Callback("_update_status", ProgressMessage))
    /\ threads' = [threads EXCEPT ![t] = NoThread]
    /\ UNCHANGED <<selectionVars, widgetVars, status, anime_list, launch,
                   thumbnail_cache, storeVars>>

\* The primary thread runs the callback at the head of the queue.
AfterUpdateStatus ==
    /\ after_queue # <<>>
    /\ Head(after_queue).fn = "_update_status"
    /\ status' = Head(after_queue).arg
    /\ after_queue' = Tail(after_queue)
    /\ UNCHANGED <<selectionVars, widgetVars, threads, anime_list, launch,
                   thumbnail_cache, storeVars>>

\* _populate_anime_results(results, target_frame)
PopulateAnimeResults ==
    /\ after_queue # <<>>
    /\ Head(after_queue).fn = "_populate_anime_results"
    /\ result_frames' = [result_frames EXCEPT
                           ![Head(after_queue).arg.target_frame] =
                               Head(after_queue).arg.results]
    /\ after_queue' = Tail(after_queue)
    /\ UNCHANGED <<selectionVars, play_button, download_button,
                   episode_list_frame, threads, anime_list, status, launch,
                   thumbnail_cache, storeVars>>

\* _populate_episodes(episodes): one button more per label.
PopulateEpisodes ==
    /\ after_queue # <<>>
    /\ Head(after_queue).fn = "_populate_episodes"
    /\ episode_list_frame' = episode_list_frame \o Head(after_queue).arg
    /\ after_queue' = Tail(after_queue)
    /\ UNCHANGED <<selectionVars, play_button, download_button,
                   result_frames, threads, anime_list, status, launch,
                   thumbnail_cache, storeVars>>

\* select_episode(ep_num), from a button of the episode list.
SelectEpisode(ep_num) ==
    /\ \E k \in 1..Len(episode_list_frame) : episode_list_frame[k] = ep_num
    /\ selected_episode' = ep_num
    /\ play_button' = "normal"
    /\ download_button' = "normal"
    /\ status' = "Selected episode. Ready to play or download."
    /\ UNCHANGED <<last_query, selected_anime_id, selected_anime_index,
                   selected_anime_title, result_frames,
                   episode_list_frame, threads, anime_list, after_queue, launch,
                   thumbnail_cache, storeVars>>

\* AniCliGUI.__init__ leaves the selection empty and both launch buttons disabled.
WidgetsIdle ==
    /\ last_query = ""
    /\ selected_anime_id = None
    /\ selected_anime_index = NoIndex
    /\ selected_anime_title = None
    /\ selected_episode = NoEpisode
    /\ play_button = "disabled"
    /\ download_button = "disabled"
    /\ result_frames = [f \in Frames |-> <<>>]
    /\ episode_list_frame = <<>>
    /\ anime_list = <<>>
    /\ launch = NoLaunch

UiIdle ==
    /\ WidgetsIdle
    /\ threads = [t \in 1..MaxThreads |-> NoThread]

\* __init__ loads the store: no file, or the file an earlier run saved.
UiInit ==
    /\ storeFile \in { PlainDoc("absent") }
                     \cup { SavedDoc([history |-> <<H1, H2>>, library |-> <<>>]) }
    /\ data = LoadResult(storeFile, LoadDefaults).data
    /\ loadOutcome = LoadResult(storeFile, LoadDefaults).outcome
    /\ UiIdle
    /\ GuiIdle

\* ------------------------------------------------------- specifications
nonStore  == <<epVars, enrichVars, scanVars, guiVars, uiVars, obsVars>>
nonEp     == <<storeVars, enrichVars, scanVars, guiVars, uiVars, obsVars>>
nonEnrich == <<storeVars, epVars, scanVars, guiVars, uiVars, obsVars>>
nonScan   == <<epVars, enrichVars, uiVars, obsVars>>
nonUi     == <<epVars, now, last_jikan_time, jikan_lock, workers, cache_files,
               jikan_requests, scanVars, obsVars>>

StoreNext ==
    \/ Load /\ UNCHANGED nonStore
    \/ Save /\ UNCHANGED nonStore
    \/ SaveFails /\ UNCHANGED nonStore
    \/ FileChanges /\ UNCHANGED nonStore

EpNext ==
    \/ GetEpisodesReturns /\ UNCHANGED nonEp
    \/ GetEpisodesRaises /\ UNCHANGED nonEp

EnrichNext ==
    \/ \E w \in WorkerIds, item \in Items : StartWorker(w, item) /\ UNCHANGED nonEnrich
    \/ \E w \in WorkerIds : CheckCache(w) /\ UNCHANGED nonEnrich
    \/ \E w \in WorkerIds : ReadMeta(w) /\ UNCHANGED nonEnrich
    \/ \E w \in WorkerIds : ReadImg(w) /\ UNCHANGED nonEnrich
    \/ \E w \in WorkerIds : Acquire(w) /\ UNCHANGED nonEnrich
    \/ \E w \in WorkerIds : Gate(w) /\ UNCHANGED nonEnrich
    \/ \E w \in WorkerIds : SendRequest(w) /\ UNCHANGED nonEnrich
    \/ \E w \in WorkerIds : ResponseFails(w) /\ UNCHANGED nonEnrich
    \/ \E w \in WorkerIds : ResponseWithoutCandidate(w) /\ UNCHANGED nonEnrich
    \/ \E w \in WorkerIds : ResponseWithCandidate(w) /\ UNCHANGED nonEnrich
    \/ \E w \in WorkerIds : WriteMeta(w) /\ UNCHANGED nonEnrich
    \/ \E w \in WorkerIds : DownloadImage(w) /\ UNCHANGED nonEnrich
    \/ \E w \in WorkerIds : WriteImg(w) /\ UNCHANGED nonEnrich
    \/ \E w \in WorkerIds : Fallback(w) /\ UNCHANGED nonEnrich
    \/ \E w \in WorkerIds : Join(w) /\ UNCHANGED nonEnrich
    \/ Tick /\ UNCHANGED nonEnrich

\* The records a context menu may add: what an earlier search showed.
ScanItems == { ResultRecord(1, i, 1) : i \in LibraryIds }

ScanNext_ ==
    \/ \E item \in ScanItems : AddToLibrary(item) /\ UNCHANGED nonScan
    \/ \E id \in LibraryIds : RemoveFromLibrary(id) /\ UNCHANGED nonScan
    \/ CheckForUpdates /\ UNCHANGED nonScan
    \/ ScanBegin /\ UNCHANGED nonScan
    \/ ScanNext /\ UNCHANGED nonScan
    \/ ScanSearchReturns /\ UNCHANGED nonScan
    \/ ScanSearchRaises /\ UNCHANGED nonScan
    \/ ScanCompare /\ UNCHANGED nonScan
    \/ ScanSleep /\ UNCHANGED nonScan
    \/ ScanFinish /\ UNCHANGED nonScan
    \/ FinalizeUpdates /\ UNCHANGED nonScan

\* The launcher is followed over the listings of one title: api.browse lists
\* title A, and its enrichment finds the title at the secondary API.
GuiBrowsePages == { page \in BrowsePages : \A k \in 1..Len(page) : page[k].id = "A" }
GuiOutcomes == { o \in EnrichOutcomes : o.image # PlaceholderImage }

GuiNext ==
    \/ SearchAnimeEmpty /\ UNCHANGED nonUi
    \/ \E query \in Queries : SearchAnime(query) /\ UNCHANGED nonUi
    \/ BrowseAnime /\ UNCHANGED nonUi
    \/ \E t \in ThreadIds : \E page \in QueryPages(threads[t].query) :
          SearchThreadReturns(t, page) /\ UNCHANGED nonUi
    \/ \E t \in ThreadIds : SearchThreadRaises(t) /\ UNCHANGED nonUi
    \/ \E t \in ThreadIds : \E page \in GuiBrowsePages :
          BrowseThreadReturns(t, page) /\ UNCHANGED nonUi
    \/ \E t \in ThreadIds : ProcessFetchedResults(t) /\ UNCHANGED nonUi
    \/ \E t \in ThreadIds : \E o \in GuiOutcomes :
          DetailThreadRuns(t, o) /\ UNCHANGED nonUi
    \/ \E t \in ThreadIds : FetchedDetails(t) /\ UNCHANGED nonUi
    \/ \E f \in Frames : \E k \in 1..Len(result_frames[f]) :
          SelectAnime(result_frames[f][k]) /\ UNCHANGED nonUi
    \/ \E t \in ThreadIds : GetEpisodesThreadRequests(t) /\ UNCHANGED nonUi
    \/ \E t \in ThreadIds : \E episodes \in EpisodeListsOf(threads[t].id) :
          GetEpisodesThreadReturns(t, episodes) /\ UNCHANGED nonUi
    \/ \E t \in ThreadIds : GetEpisodesThreadRaises(t) /\ UNCHANGED nonUi
    \/ AfterUpdateStatus /\ UNCHANGED nonUi
    \/ PopulateAnimeResults /\ UNCHANGED nonUi
    \/ PopulateEpisodes /\ UNCHANGED nonUi
    \/ \E k \in 1..Len(episode_list_frame) :
          SelectEpisode(episode_list_frame[k]) /\ UNCHANGED nonUi
    \/ PlayEpisode /\ UNCHANGED nonUi
    \/ DownloadEpisode /\ UNCHANGED nonUi
    \/ \E k \in 1..Len(data.history) :
          PlayFromHistory(data.history[k]) /\ UNCHANGED nonUi

\* One thread enriching one record again and again, each call after the
\* one before returned, from an empty cache directory.
Observed(A) == A /\ Observe /\ UNCHANGED <<storeVars, epVars, scanVars, guiVars, uiVars>>

RoundTripNext ==
    \/ Observed(StartWorker(ObservedWorker, ObservedItem) /\ Len(enrich_log) < MaxEnrich)
    \/ Observed(CheckCache(ObservedWorker))
    \/ Observed(ReadMeta(ObservedWorker))
    \/ Observed(ReadImg(ObservedWorker))
    \/ Observed(Acquire(ObservedWorker))
    \/ Observed(Gate(ObservedWorker))
    \/ Observed(SendRequest(ObservedWorker))
    \/ Observed(ResponseFails(ObservedWorker))
    \/ Observed(ResponseWithoutCandidate(ObservedWorker))
    \/ Observed(ResponseWithCandidate(ObservedWorker))
    \/ Observed(WriteMeta(ObservedWorker))
    \/ Observed(DownloadImage(ObservedWorker))
    \/ Observed(WriteImg(ObservedWorker))
    \/ Observed(Fallback(ObservedWorker))
    \/ Observed(Join(ObservedWorker))
    \/ Observed(Tick)

InitStore == StoreInit /\ EpIdle /\ EnrichIdle /\ ScanIdle /\ GuiIdle /\ UiIdle /\ ObsIdle
SpecStore == InitStore /\ [][StoreNext]_vars

InitEpisodes == EpInit /\ StoreIdle /\ EnrichIdle /\ ScanIdle /\ GuiIdle /\ UiIdle /\ ObsIdle
SpecEpisodes == InitEpisodes /\ [][EpNext]_vars

InitEnrich == EnrichInit /\ StoreIdle /\ EpIdle /\ ScanIdle /\ GuiIdle /\ UiIdle /\ ObsIdle
SpecEnrich == InitEnrich /\ [][EnrichNext]_vars

InitScan == ScanInit /\ EpIdle /\ EnrichIdle /\ UiIdle /\ ObsIdle
SpecScan == InitScan /\ [][ScanNext_]_vars

\* The scan thread keeps running (api.search ends, by its 20 s timeout at the
\* latest, and time.sleep returns) and the main loop runs the callbacks queued.
ScanThreadNext ==
    \/ ScanBegin \/ ScanNext \/ ScanSearchReturns \/ ScanSearchRaises
    \/ ScanCompare \/ ScanSleep \/ ScanFinish
SpecScanFair ==
    /\ InitScan
    /\ [][ScanNext_]_vars
    /\ WF_vars(ScanThreadNext /\ UNCHANGED nonScan)
    /\ WF_vars(FinalizeUpdates /\ UNCHANGED nonScan)

InitGui == UiInit /\ EpIdle /\ EnrichIdle /\ ScanIdle /\ ObsIdle
SpecGui == InitGui /\ [][GuiNext]_vars

InitRoundTrip == EnrichIdle /\ StoreIdle /\ EpIdle /\ ScanIdle /\ GuiIdle /\ UiIdle /\ ObsIdle
SpecRoundTrip == InitRoundTrip /\ [][RoundTripNext]_vars

\* The launcher of a fresh installation, with api.browse listing title B.
LaunchBrowsePages == (BrowsePages \ GuiBrowsePages) \cup {<<>>}

LaunchNext ==
    \/ SearchAnimeEmpty /\ UNCHANGED nonUi
    \/ \E query \in Queries : SearchAnime(query) /\ UNCHANGED nonUi
    \/ BrowseAnime /\ UNCHANGED nonUi
    \/ \E t \in ThreadIds : \E page \in QueryPages(threads[t].query) :
          SearchThreadReturns(t, page) /\ UNCHANGED nonUi
    \/ \E t \in ThreadIds : SearchThreadRaises(t) /\ UNCHANGED nonUi
    \/ \E t \in ThreadIds : \E page \in LaunchBrowsePages :
          BrowseThreadReturns(t, page) /\ UNCHANGED nonUi
    \/ \E t \in ThreadIds : ProcessFetchedResults(t) /\ UNCHANGED nonUi
    \/ \E t \in ThreadIds : \E o \in GuiOutcomes :
          DetailThreadRuns(t, o) /\ UNCHANGED nonUi
    \/ \E t \in ThreadIds : FetchedDetails(t) /\ UNCHANGED nonUi
    \/ \E f \in Frames : \E k \in 1..Len(result_frames[f]) :
          SelectAnime(result_frames[f][k]) /\ UNCHANGED nonUi
    \/ \E t \in ThreadIds : GetEpisodesThreadRequests(t) /\ UNCHANGED nonUi
    \/ \E t \in ThreadIds : \E episodes \in EpisodeListsOf(threads[t].id) :
          GetEpisodesThreadReturns(t, episodes) /\ UNCHANGED nonUi
    \/ \E t \in ThreadIds : GetEpisodesThreadRaises(t) /\ UNCHANGED nonUi
    \/ AfterUpdateStatus /\ UNCHANGED nonUi
    \/ PopulateAnimeResults /\ UNCHANGED nonUi
    \/ PopulateEpisodes /\ UNCHANGED nonUi
    \/ \E k \in 1..Len(episode_list_frame) :
          SelectEpisode(episode_list_frame[k]) /\ UNCHANGED nonUi
    \/ PlayEpisode /\ UNCHANGED nonUi
    \/ DownloadEpisode /\ UNCHANGED nonUi
    \/ \E k \in 1..Len(data.history) :
          PlayFromHistory(data.history[k]) /\ UNCHANGED nonUi

InitLaunch == StoreIdle /\ UiIdle /\ GuiIdle /\ EpIdle /\ EnrichIdle /\ ScanIdle /\ ObsIdle
SpecLaunch == InitLaunch /\ [][LaunchNext]_vars

\* The details panel with episode threads racing: the search for "q2" has
\* rendered its page of two titles, both found at the secondary API.
Rendered(page) == [k \in 1..Len(page) |-> [page[k] EXCEPT !.synopsis = "Syn1"]]
TwoTitles == CHOOSE page \in QueryPages("q2") : Len(page) = 2

SearchRendered ==
    /\ last_query = "q2"
    /\ anime_list = TwoTitles
    /\ result_frames = [f \in Frames |-> IF f = "anime_results_frame"
                                         THEN Rendered(TwoTitles) ELSE <<>>]
    /\ thumbnail_cache = [i \in RecordIds |-> "Img1"]
    /\ after_queue = <<>>
    /\ status = ProgressMessage

InitSelect ==
    /\ SearchRendered
    /\ selected_anime_id = None
    /\ selected_anime_index = NoIndex
    /\ selected_anime_title = None
    /\ selected_episode = NoEpisode
    /\ play_button = "disabled"
    /\ download_button = "disabled"
    /\ episode_list_frame = <<>>
    /\ launch = NoLaunch
    /\ threads = [t \in 1..MaxEpisodeThreads |-> NoThread]
    /\ now = JikanWindow
    /\ last_jikan_time = 0
    /\ jikan_lock = 0
    /\ workers = [w \in WorkerIds |-> IdleWorker]
    /\ cache_files = [t \in Titles |-> [meta |-> NoFile, img |-> NoFile]]
    /\ jikan_requests = <<>>
    /\ StoreIdle /\ EpIdle /\ ScanIdle /\ ObsIdle

SelectNext ==
    \/ \E f \in Frames : \E k \in 1..Len(result_frames[f]) :
          SelectAnime(result_frames[f][k]) /\ UNCHANGED nonUi
    \/ \E t \in ThreadIds : GetEpisodesThreadRequests(t) /\ UNCHANGED nonUi
    \/ \E t \in ThreadIds : \E episodes \in EpisodeListsOf(threads[t].id) :
          GetEpisodesThreadReturns(t, episodes) /\ UNCHANGED nonUi
    \/ \E t \in ThreadIds : GetEpisodesThreadRaises(t) /\ UNCHANGED nonUi
    \/ AfterUpdateStatus /\ UNCHANGED nonUi
    \/ PopulateEpisodes /\ UNCHANGED nonUi
    \/ \E k \in 1..Len(episode_list_frame) :
          SelectEpisode(episode_list_frame[k]) /\ UNCHANGED nonUi
    \/ PlayEpisode /\ UNCHANGED nonUi
    \/ DownloadEpisode /\ UNCHANGED nonUi

SpecSelect == InitSelect /\ [][SelectNext]_vars

\* Search and browse fetches racing: a second fetch is started (Return in the
\* entry, or the browse page) while the first one is in flight.
FetchQueries == {"q1", "q2"}

FetchNext ==
    \/ \E query \in FetchQueries : SearchAnime(query) /\ UNCHANGED nonUi
    \/ BrowseAnime /\ UNCHANGED nonUi
    \/ \E t \in ThreadIds : \E page \in QueryPages(threads[t].query) :
          SearchThreadReturns(t, page) /\ UNCHANGED nonUi
    \/ \E t \in ThreadIds : SearchThreadRaises(t) /\ UNCHANGED nonUi
    \/ \E t \in ThreadIds : \E page \in BrowsePages :
          BrowseThreadReturns(t, page) /\ UNCHANGED nonUi
    \/ \E t \in ThreadIds : ProcessFetchedResults(t) /\ UNCHANGED nonUi
    \/ \E t \in ThreadIds : \E o \in EnrichOutcomes :
          DetailThreadRuns(t, o) /\ UNCHANGED nonUi
    \/ \E t \in ThreadIds : FetchedDetails(t) /\ UNCHANGED nonUi
    \/ AfterUpdateStatus /\ UNCHANGED nonUi
    \/ PopulateAnimeResults /\ UNCHANGED nonUi

InitFetch ==
    /\ WidgetsIdle
    /\ threads = [t \in 1..MaxFetches |-> NoThread]
    /\ StoreIdle /\ GuiIdle /\ EpIdle /\ EnrichIdle /\ ScanIdle /\ ObsIdle
SpecFetch == InitFetch /\ [][FetchNext]_vars

\* One search and the enrichment of its batch, each detail thread running
\* _fetch_details_for_item statement by statement.
nonBatch == <<epVars, scanVars, obsVars>>
BatchQueries == {"q2"}

BatchNext ==
    \/ \E query \in BatchQueries : SearchAnime(query) /\ UNCHANGED nonUi
    \/ \E t \in ThreadIds : \E page \in QueryPages(threads[t].query) :
          SearchThreadReturns(t, page) /\ UNCHANGED nonUi
    \/ \E t \in ThreadIds : SearchThreadRaises(t) /\ UNCHANGED nonUi
    \/ \E t \in ThreadIds : ProcessFetchedResults(t) /\ UNCHANGED nonUi
    \/ \E t \in ThreadIds : StartDetailThread(t) /\ UNCHANGED nonBatch
    \/ \E w \in WorkerIds : CheckCache(w) /\ UNCHANGED nonEnrich
    \/ \E w \in WorkerIds : ReadMeta(w) /\ UNCHANGED nonEnrich
    \/ \E w \in WorkerIds : ReadImg(w) /\ UNCHANGED nonEnrich
    \/ \E w \in WorkerIds : Acquire(w) /\ UNCHANGED nonEnrich
    \/ \E w \in WorkerIds : Gate(w) /\ UNCHANGED nonEnrich
    \/ \E w \in WorkerIds : SendRequest(w) /\ UNCHANGED nonEnrich
    \/ \E w \in WorkerIds : ResponseFails(w) /\ UNCHANGED nonEnrich
    \/ \E w \in WorkerIds : ResponseWithoutCandidate(w) /\ UNCHANGED nonEnrich
    \/ \E w \in WorkerIds : ResponseWithCandidate(w) /\ UNCHANGED nonEnrich
    \/ \E w \in WorkerIds : WriteMeta(w) /\ UNCHANGED nonEnrich
    \/ \E w \in WorkerIds : DownloadImage(w) /\ UNCHANGED nonEnrich
    \/ \E w \in WorkerIds : WriteImg(w) /\ UNCHANGED nonEnrich
    \/ \E w \in WorkerIds : Fallback(w) /\ UNCHANGED nonEnrich
    \/ Tick /\ UNCHANGED nonEnrich
    \/ \E t \in ThreadIds : JoinDetailThread(t) /\ UNCHANGED nonBatch
    \/ \E t \in ThreadIds : FetchedDetails(t) /\ UNCHANGED nonUi
    \/ AfterUpdateStatus /\ UNCHANGED nonUi
    \/ PopulateAnimeResults /\ UNCHANGED nonUi

InitBatch == StoreIdle /\ UiIdle /\ GuiIdle /\ EpIdle /\ EnrichInit /\ ScanIdle /\ ObsIdle
SpecBatch == InitBatch /\ [][BatchNext]_vars

\* ================================================================ claims

\* C1: add_to_history leaves the history as it is when the new entry's title
\* and episode are those of the last entry, and appends exactly one entry (the
\* new one) when the history is empty or the title or the episode differs from
\* the last entry's; the entries before are never changed or removed, and an
\* entry equal to an older one is appended all the same.
C1_HistoryDedup ==
    [][/\ Len(data'.history) >= Len(data.history)
       /\ SubSeq(data'.history, 1, Len(data.history)) = data.history
       /\ (/\ launch'.n # launch.n
           /\ launch'.outcome = "spawned"
           /\ launch'.action_flag = None) =>
             LET h == data.history
                 h2 == data'.history
                 same == /\ h # <<>>
                         /\ h[Len(h)].title = selected_anime_title'
                         /\ h[Len(h)].episode = selected_episode'
             IN  IF same
                 THEN h2 = h
                 ELSE /\ Len(h2) = Len(h) + 1
                      /\ h2[Len(h2)].title = selected_anime_title'
                      /\ h2[Len(h2)].episode = selected_episode'
                      /\ h2[Len(h2)].query = last_query'
                      /\ h2[Len(h2)].index = selected_anime_index']_vars

\* A stored history of two entries; the older one was played from the history
\* page and appended as a third entry, then played again and not appended.
C1_Witness ==
    /\ launch.n = 2
    /\ launch.outcome = "spawned"
    /\ launch.action_flag = None
    /\ status = "Playing..."
    /\ Len(data.history) = 3
    /\ data.history[3].title = data.history[1].title
    /\ data.history[3].episode = data.history[1].episode
    /\ data.history[2].title # data.history[3].title

\* C2: in the round of a library entry with id i and stored count c, the
\* stored count becomes n and the entry joins updated_items exactly when the
\* search response holds a record with id i whose count n is greater than c;
\* with an equal or lower count, or no record with id i, the stored entry and
\* updated_items stay as they are.  No other step of the scan thread touches
\* the store or updated_items, so this is what a completed scan leaves.
C2_ScanUpdatesNewerCounts ==
    [][/\ (scan.pc = "compare" /\ scan'.pc # "compare") =>
           LET i == scan.cur.id
               c == scan.cur.episodes
               newer == { k \in 1..Len(scan.response) :
                            /\ scan.response[k].id = i
                            /\ scan.response[k].episodes > c }
           IN  IF newer # {}
               THEN \E k \in newer :
                      LET n == scan.response[k].episodes
                      IN  /\ scan'.updated_items =
                                Append(scan.updated_items, [scan.cur EXCEPT !.episodes = n])
                          /\ scan.curLive =>
                                data' = [data EXCEPT
                                           !.library[LibraryPos(data.library, i)].episodes = n]
               ELSE /\ data' = data
                    /\ scan'.updated_items = scan.updated_items
       /\ (scan.pc \in {"next", "search", "sleep", "set"} /\ scan'.pc # scan.pc) =>
              /\ data' = data
              /\ scan'.updated_items = scan.updated_items]_vars

\* A scan of the library {A: 1 episode, B: 1 episode} that nothing disturbed
\* has ended its loop: the search for A reported 2 episodes, the one for B
\* nothing newer.
C2_Witness ==
    /\ scan.pc = "set"
    /\ library_edits = 0
    /\ data.library = <<ResultRecord(1, "A", 2), ResultRecord(2, "B", 1)>>
    /\ scan.updated_items = <<ResultRecord(1, "A", 2)>>

\* C3: any two requests to the secondary API are sent at least 0.5 s apart,
\* under every interleaving of the enrichment workers; hence the k-th request
\* after a given one is sent at least k * 0.5 s later.
C3_RequestsHalfSecondApart ==
    \A i, j \in 1..Len(jikan_requests) :
        i < j => jikan_requests[j].t - jikan_requests[i].t >= (j - i) * JikanWindow

\* Two workers on two uncached titles, the second request sent exactly one
\* window after the first, the second worker still awaiting its response.
C3_Witness ==
    /\ Len(jikan_requests) = 2
    /\ jikan_requests[1].title # jikan_requests[2].title
    /\ jikan_requests[2].t - jikan_requests[1].t = JikanWindow
    /\ \E w \in WorkerIds : workers[w].pc = "await"

\* C4 as stated: a title with no cache entry, enriched twice in a row, costs
\* exactly one request to the secondary API, and the second enrichment
\* attaches what the first attached.
C4_OneCallForTwoEnrichments ==
    Len(enrich_log) >= 2 =>
        /\ enrich_log[1].requests = 1
        /\ enrich_log[2].requests = 1
        /\ enrich_log[2].synopsis = enrich_log[1].synopsis
        /\ enrich_log[2].image = enrich_log[1].image

\* C4 amended: when the first enrichment left both cache files of the title
\* behind, the second sends no request (one in total), and, unless reading
\* the files back fails, attaches the synopsis and image the first attached.
C4_RoundTripWhenStored ==
    (Len(enrich_log) >= 2 /\ enrich_log[1].cached) =>
        /\ enrich_log[1].requests = 1
        /\ enrich_log[2].requests = 1
        /\ enrich_log[2].failure # "cache_read" =>
              /\ enrich_log[2].synopsis = enrich_log[1].synopsis
              /\ enrich_log[2].image = enrich_log[1].image

\* The second enrichment served from the files the first one wrote.
C4_Witness ==
    /\ Len(enrich_log) >= 2
    /\ enrich_log[1].cached
    /\ enrich_log[1].failure = None
    /\ enrich_log[2].failure = None
    /\ enrich_log[2].requests = 1
    /\ enrich_log[2].synopsis = "Syn1"
    /\ enrich_log[2].image = "Img1"

\* C5: load() never raises, whatever the file holds; a document that cannot
\* be read or parsed leaves exactly the empty defaults.
C5_LoadNeverRaises ==
    [][Load => /\ loadOutcome' # "raised"
               /\ LoadRaises(storeFile) => data' = LoadDefaults]_vars

\* C6: the argument list of a spawned process is the player tool, "-q", the
\* quality, "--dub" exactly for mode dub, "-d" exactly for a download, "-S",
\* the index, "-e", the episode and, last, the query.
C6_ArgumentSequence ==
    [][(launch'.n # launch.n /\ launch'.outcome = "spawned") =>
          LET c == launch'.command
              d == IF launch'.mode = "dub" THEN 1 ELSE 0
              a == IF launch'.action_flag = "-d" THEN 1 ELSE 0
          IN  /\ Len(c) = 8 + d + a
              /\ c[1] = ANI_CLI_PATH
              /\ c[2] = "-q"
              /\ c[3] = launch'.quality
              /\ d = 1 => c[4] = "--dub"
              /\ a = 1 => c[4 + d] = "-d"
              /\ c[4 + d + a] = "-S"
              /\ c[5 + d + a] = ToString(selected_anime_index')
              /\ c[6 + d + a] = "-e"
              /\ c[7 + d + a] = Str(selected_episode')
              /\ c[8 + d + a] = last_query']_vars

\* A download of episode 2 of the first result of "q1", dubbed, at 720p.
C6_Witness ==
    /\ launch.outcome = "spawned"
    /\ launch.command = <<"ani-cli", "-q", "720p", "--dub", "-d",
                          "-S", "1", "-e", "2", "q1">>

\* C7: get_episodes returns the mode's list of labels, permuted into
\* ascending order of their numeric values; the empty list when the detail
\* map has no list for the mode.
Count(s, x) == Cardinality({i \in 1..Len(s) : s[i] = x})

C7_EpisodesSortedNumerically ==
    ep_result[1] = "returned" =>
        LET r == ep_result[2]
            input == IF ep_detail[ep_mode].present THEN ep_detail[ep_mode].list ELSE <<>>
        IN  /\ Len(r) = Len(input)
            /\ \A l \in Labels : Count(r, l) = Count(input, l)
            /\ \A i, j \in 1..Len(r) : i < j => Float(r[i]) <= Float(r[j])
            /\ ~ep_detail[ep_mode].present => r = <<>>

\* ["2", "10", "1"] came back as ["1", "2", "10"].
C7_Witness ==
    /\ ep_detail[ep_mode].list = <<L2, L10, L1>>
    /\ ep_result = <<"returned", <<L1, L2, L10>>>>

\* C8: whatever fails during an enrichment, the call returns (it never
\* raises) with a synopsis on the record and an image-cache entry under the
\* record's id; after a failure these are the default synopsis and the
\* placeholder image.
C8_EnrichmentFallback ==
    [][\A w \in WorkerIds :
          /\ workers'[w].pc # "raised"
          /\ Returned(w) =>
                /\ workers'[w].synopsis # None
                /\ thumbnail_cache'[workers'[w].id] # None
                /\ workers'[w].failure # None =>
                      /\ workers'[w].synopsis = DefaultSynopsis
                      /\ thumbnail_cache'[workers'[w].id] = PlaceholderImage]_vars

\* One enrichment returned after a failed request, another after a cache
\* file that could not be read.
C8_Witness ==
    \E v, w \in WorkerIds :
        /\ workers[v].pc = "done" /\ workers[v].failure = "request"
        /\ workers[w].pc = "done" /\ workers[w].failure = "cache_read"
        /\ workers[w].synopsis = DefaultSynopsis
        /\ thumbnail_cache[workers[w].id] = PlaceholderImage

\* C9: a play or download requested while the query, the index or the episode
\* is absent spawns nothing, records nothing in the history, leaves the
\* selection as it is and sets the error status; the handler returns, and
\* later requests are served.
C9_IncompleteSelectionRejected ==
    [][(/\ launch'.n # launch.n
        /\ \/ last_query' = ""
           \/ selected_anime_index' = NoIndex
           \/ selected_episode' = NoEpisode) =>
          /\ launch'.outcome = "rejected"
          /\ launch'.command = <<>>
          /\ data' = data
          /\ UNCHANGED selectionVars
          /\ status' = SelectionError]_vars

\* A record picked from the browse page and an episode picked: Play was
\* pressed with no search query, and refused.
C9_Witness ==
    /\ launch.outcome = "rejected"
    /\ last_query = ""
    /\ selected_anime_index = 1
    /\ selected_episode = L2
    /\ status = SelectionError
    /\ play_button = "normal"

\* C10: the history changes only in a play request (Play button or history
\* row) whose process was spawned, and such a request submits its entry: the
\* history grows by it unless it repeats the last entry; a download, a failed
\* spawn and a rejected request leave the history as it is.
C10_HistoryOnlyOnPlaySpawn ==
    [][LET request == launch'.n # launch.n
           playSpawned == /\ request
                          /\ launch'.outcome = "spawned"
                          /\ launch'.action_flag # "-d"
           h == data.history
       IN  /\ data'.history # h => playSpawned
           /\ (request /\ ~playSpawned) => data'.history = h
           /\ playSpawned =>
                \/ /\ data'.history = h
                   /\ h # <<>>
                   /\ h[Len(h)].title = selected_anime_title'
                   /\ h[Len(h)].episode = selected_episode'
                \/ /\ Len(data'.history) = Len(h) + 1
                   /\ data'.history[Len(h) + 1].title = selected_anime_title'
                   /\ data'.history[Len(h) + 1].episode = selected_episode']_vars

\* From an empty history: an episode was played and recorded, then one was
\* downloaded and not recorded.
C10_Witness ==
    /\ storeFile = PlainDoc("absent")
    /\ launch.n = 2
    /\ launch.outcome = "spawned"
    /\ launch.action_flag = "-d"
    /\ Len(data.history) = 1

\* C11: every step that changes the store (the history, the library, a field
\* of a library entry) is a step of the primary thread: the thread of the
\* update scan never writes the store.
C11_StoreWrittenByPrimaryThread ==
    [][data' # data => ~ScanThreadStep]_vars

\* C12: when a search of the scan raises, that step leaves the store and
\* updated_items as they are, the scan is not aborted, and the scan goes on to
\* hand updated_items to the primary thread, which re-enables the button.
C12_ScanSurvivesFailedSearch ==
    /\ [][(scan.pc = "search" /\ scan'.pc = "next") =>
             /\ data' = data
             /\ scan'.updated_items = scan.updated_items]_vars
    /\ [](SearchFailed(scan.log) => scan.pc # "crashed")
    /\ (scan.pc = "next" /\ SearchFailed(scan.log))
          ~> (scan.pc = "idle" /\ check_updates_button = "normal")

\* C16: when the scan sends a search request after an earlier one of the same
\* scan, the thread has slept 0.5 s since that earlier request, however the
\* earlier search ended.
C16_PauseBetweenSearches ==
    [][(scan.pc = "next" /\ scan'.pc = "search" /\ scan.log # <<>>) =>
          scan.paused >= ScanPause]_vars

\* C13: an enrichment that finds both cache files of its title and cannot
\* read or parse one of them goes on as for a title with no cache entry, to
\* the rate-limit gate and the secondary API; and no enrichment ends by an
\* exception that escapes.
C13_CorruptCacheIsAMiss ==
    /\ [][\A w \in WorkerIds :
             /\ (workers[w].pc = "read_meta" /\ workers'[w].pc # "read_meta") =>
                    workers'[w].pc \in {"read_img", "acquire"}
             /\ (workers[w].pc = "read_img" /\ workers'[w].pc # "read_img") =>
                    workers'[w].pc \in {"done", "acquire"}]_vars
    /\ [](\A w \in WorkerIds : workers[w].pc # "raised")

\* C14: a worker awaiting the response of the secondary API does not hold
\* jikan_lock: the lock covers the elapsed-time check, the sleep and the
\* stamp only, so that a sibling can pass the gate meanwhile.
C14_LockFreeWhileAwaiting ==
    \A w \in WorkerIds : workers[w].pc = "await" => jikan_lock # w

\* The records of a page, by id.
Ids(page) == [k \in 1..Len(page) |-> page[k].id]

\* C15: a thread schedules the rendering of its batch only when it has started
\* and joined one detail thread for every record of the batch, and a detail
\* thread is joined only once it has ended; the batch scheduled is the whole
\* list _process_fetched_results received, each record with a synopsis, and
\* every detail thread that returns has written the image-cache entry of its
\* record.  An empty list schedules the not-found message alone, starts no
\* detail thread and ends the thread.
C15_BatchScheduledAfterJoins ==
    [][/\ \A t \in ThreadIds :
            /\ (threads[t].pc = "fetched" /\ threads'[t].pc = "details") =>
                  /\ anime_list # <<>>
                  /\ threads'[t].results = anime_list
                  /\ threads'[t].started = 0 /\ threads'[t].joined = 0
                  /\ workers' = workers
            /\ (threads[t].pc = "details" /\ threads'[t].pc = "details"
                   /\ threads'[t].joined # threads[t].joined) =>
                  LET k == threads'[t].joined
                  IN  /\ k = threads[t].joined + 1
                      /\ threads[t].started = Len(threads[t].results)
                      /\ workers[k].pc = "done"
                      /\ workers[k].id = threads[t].results[k].id
                      /\ workers[k].synopsis # None
                      /\ threads'[t].results[k].synopsis = workers[k].synopsis
            /\ (threads[t].pc = "details" /\ threads'[t].kind = "none") =>
                  LET hand  == after_queue'[Len(after_queue) + 1]
                      batch == hand.arg.results
                  IN  /\ hand.fn = "_populate_anime_results"
                      /\ batch # <<>>
                      /\ Ids(batch) = Ids(threads[t].results)
                      /\ threads[t].started = Len(batch)
                      /\ threads[t].joined = Len(batch)
                      /\ \A k \in 1..Len(batch) : batch[k].synopsis # None
            /\ (threads[t].pc = "fetched" /\ threads'[t] # threads[t]
                   /\ anime_list = <<>>) =>
                  /\ after_queue' = Append(after_queue,
                                           Callback("_update_status", ProgressMessage))
                  /\ threads'[t].kind = "none"
                  /\ workers' = workers
       /\ \A w \in WorkerIds :
            Returned(w) => thumbnail_cache'[workers'[w].id] # None
       /\ \A k \in Len(after_queue) + 1 .. Len(after_queue') :
            after_queue'[k].fn = "_populate_anime_results" =>
               \E t \in ThreadIds :
                  threads[t].pc = "details" /\ threads'[t].kind = "none"]_vars

\* A batch of two records waits to be rendered: the first record got the
\* synopsis of the secondary API, the enrichment of the second one failed.
C15_Witness ==
    /\ after_queue # <<>>
    /\ Head(after_queue).fn = "_populate_anime_results"
    /\ Len(Head(after_queue).arg.results) = 2
    /\ Head(after_queue).arg.results[1].synopsis = "Syn1"
    /\ Head(after_queue).arg.results[2].synopsis = DefaultSynopsis
    /\ thumbnail_cache["A"] = PlaceholderImage
    /\ Len(jikan_requests) = 2

\* C17: whenever a process is spawned, the index passed with -S is the
\* position of the selected title in a page that api.search returns for the
\* query passed as the positional argument.
C17_IndexBelongsToQuery ==
    [][(launch'.n # launch.n /\ launch'.outcome = "spawned") =>
          \E page \in QueryPages(last_query') :
             /\ selected_anime_index' \in 1..Len(page)
             /\ page[selected_anime_index'].title = selected_anime_title']_vars

\* The episode labels the remote system has for a show.
EpisodeLabelsOf(id) ==
    UNION { { list[k] : k \in 1..Len(list) } : list \in EpisodeListsOf(id) }

\* C18: every episode button of the details panel carries an episode of the
\* selected title, and a process spawned from the panel gets with -e an
\* episode of the title whose index it gets with -S.
C18_EpisodesOfSelectedTitle ==
    /\ [](\A k \in 1..Len(episode_list_frame) :
             episode_list_frame[k] \in EpisodeLabelsOf(selected_anime_id))
    /\ [][(launch'.n # launch.n /\ launch'.outcome = "spawned") =>
             selected_episode' \in EpisodeLabelsOf(selected_anime_id')]_vars

\* C19: a fetch enriches and renders the records its own api call returned;
\* when every fetch has finished and every callback has run, the search
\* results frame shows a page of the query held as last_query; and when a
\* batch is rendered, the image-cache entries of its records are in place.
C19_FetchesAreIsolated ==
    /\ [](\A t \in ThreadIds :
             threads[t].pc = "details" =>
                Ids(threads[t].results) = Ids(threads[t].returned))
    /\ []((/\ after_queue = <<>>
            /\ last_query # ""
            /\ \A t \in ThreadIds : threads[t].kind = "none") =>
              Ids(result_frames["anime_results_frame"])
                 \in { Ids(page) : page \in QueryPages(last_query) })
    /\ [][(/\ after_queue # <<>>
           /\ Head(after_queue).fn = "_populate_anime_results"
           /\ after_queue' = Tail(after_queue)) =>
             \A k \in 1..Len(Head(after_queue).arg.results) :
                thumbnail_cache[Head(after_queue).arg.results[k].id] # None]_vars

====
